---- MODULE Spec2Model ----
(***************************************************************************)
(* Model of the tick-based economy simulation of forged-alliance-never     *)
(* (src/src/simulation.rs, src/src/main.rs).                               *)
(*                                                                         *)
(* Every quantity the program keeps in an f64 is kept here as an IEEE-754  *)
(* binary64 value: sign, 53-bit significand (as 15-bit limbs, least        *)
(* significant first) and binary exponent, with round-to-nearest-even      *)
(* after every operation, signed zeros, infinities and NaN.  The exponent  *)
(* range is not limited (no overflow to infinity and no subnormals); the   *)
(* magnitudes the scenarios reach stay far inside the binary64 range.      *)
(*                                                                         *)
(* CHOOSE r \in {e(x) : x \in {v}} : TRUE is e(v) with v computed once; it  *)
(* is used where a value is read more than once.                           *)
(***************************************************************************)
EXTENDS Integers, Sequences, FiniteSets, TLC

(***************************************************************************)
(* Natural numbers of arbitrary size: sequences of limbs, least            *)
(* significant first, no leading zero limb; <<>> is zero.                  *)
(***************************************************************************)
Base == 2 ^ 15
\* bits of a limb
LimbBits == CHOOSE n \in 1..30 : 2 ^ n = Base
\* f64::MANTISSA_DIGITS
MantBits == 53

RECURSIVE BNorm(_)
BNorm(a) ==
    IF a = <<>> THEN a
    ELSE IF a[Len(a)] = 0 THEN BNorm(SubSeq(a, 1, Len(a) - 1))
    ELSE a

Limb(a, i) == IF i <= Len(a) THEN a[i] ELSE 0

RECURSIVE BAddR(_, _, _, _)
BAddR(a, b, i, c) ==
    IF i > Len(a) /\ i > Len(b)
    THEN (IF c = 0 THEN <<>> ELSE <<c>>)
    ELSE LET x == Limb(a, i) + Limb(b, i) + c
         IN  <<x % Base>> \o BAddR(a, b, i + 1, x \div Base)

BAdd(a, b) == BAddR(a, b, 1, 0)

RECURSIVE BSubR(_, _, _, _)
BSubR(a, b, i, c) ==
    IF i > Len(a) THEN <<>>
    ELSE LET x == a[i] - Limb(b, i) - c
         IN  IF x < 0 THEN <<x + Base>> \o BSubR(a, b, i + 1, 1)
             ELSE <<x>> \o BSubR(a, b, i + 1, 0)

\* a - b for a >= b
BSub(a, b) == BNorm(BSubR(a, b, 1, 0))

RECURSIVE BCmpR(_, _, _)
BCmpR(a, b, i) ==
    IF i = 0 THEN 0
    ELSE IF a[i] < b[i] THEN -1
    ELSE IF a[i] > b[i] THEN 1
    ELSE BCmpR(a, b, i - 1)

\* -1, 0, 1 as a < b, a = b, a > b
BCmp(a, b) ==
    IF Len(a) < Len(b) THEN -1
    ELSE IF Len(a) > Len(b) THEN 1
    ELSE BCmpR(a, b, Len(a))

RECURSIVE BMulSmallR(_, _, _, _)
BMulSmallR(a, k, i, c) ==
    IF i > Len(a) THEN (IF c = 0 THEN <<>> ELSE <<c>>)
    ELSE LET x == a[i] * k + c
         IN  <<x % Base>> \o BMulSmallR(a, k, i + 1, x \div Base)

\* a * k for 0 <= k < Base
BMulSmall(a, k) == IF k = 0 THEN <<>> ELSE BMulSmallR(a, k, 1, 0)

Zeros(n) == [i \in 1..n |-> 0]

ShiftLimbs(a, n) == IF a = <<>> THEN a ELSE Zeros(n) \o a

RECURSIVE BMulR(_, _, _)
BMulR(a, b, j) ==
    IF j > Len(b) THEN <<>>
    ELSE BAdd(ShiftLimbs(BMulSmall(a, b[j]), j - 1), BMulR(a, b, j + 1))

BMul(a, b) == BMulR(a, b, 1)

\* a * 2^n
BShl(a, n) == ShiftLimbs(BMulSmall(a, 2 ^ (n % LimbBits)), n \div LimbBits)

RECURSIVE BDivSmallR(_, _, _, _)
BDivSmallR(a, k, i, r) ==
    IF i = 0 THEN <<>>
    ELSE LET cur == r * Base + a[i]
         IN  BDivSmallR(a, k, i - 1, cur % k) \o <<cur \div k>>

\* floor(a / 2^n)
BShr(a, n) ==
    LET q == n \div LimbBits
        t == IF q >= Len(a) THEN <<>> ELSE SubSeq(a, q + 1, Len(a))
    IN  BNorm(BDivSmallR(t, 2 ^ (n % LimbBits), Len(t), 0))

\* a mod 2^n
BLow(a, n) ==
    LET q == n \div LimbBits
        r == n % LimbBits
    IN  IF q >= Len(a) THEN a
        ELSE BNorm(SubSeq(a, 1, q) \o <<a[q + 1] % (2 ^ r)>>)

RECURSIVE BitsOf(_)
BitsOf(x) == IF x = 0 THEN 0 ELSE 1 + BitsOf(x \div 2)

BitLen(a) == IF a = <<>> THEN 0 ELSE LimbBits * (Len(a) - 1) + BitsOf(a[Len(a)])

RECURSIVE BFromNat(_)
BFromNat(n) == IF n = 0 THEN <<>> ELSE <<n % Base>> \o BFromNat(n \div Base)

\* one step of restoring division on st = <<remainder, quotient>>
DivStep(st, d) ==
    LET r2 == BMulSmall(st[1], 2)
    IN  IF BCmp(r2, d) >= 0
        THEN <<BSub(r2, d), BAdd(BMulSmall(st[2], 2), <<1>>)>>
        ELSE <<r2, BMulSmall(st[2], 2)>>

\* n steps of restoring division of st[1] (< d) by d
RECURSIVE BDivBits(_, _, _)
BDivBits(st, d, n) ==
    IF n = 0 THEN st
    ELSE CHOOSE v \in {BDivBits(s2, d, n - 1) : s2 \in {DivStep(st, d)}} : TRUE

(***************************************************************************)
(* binary64 values.  k = "f": (-1)^s * m * 2^e with m = 0 (e = 0) or       *)
(* 2^52 <= m < 2^53;  k = "i": infinity of sign s;  k = "n": NaN.          *)
(***************************************************************************)
Fin(s, m, e) == [k |-> "f", s |-> s, m |-> m, e |-> e]
FZero(s) == Fin(s, <<>>, 0)
FInf(s) == [k |-> "i", s |-> s, m |-> <<>>, e |-> 0]
NaN == [k |-> "n", s |-> 0, m |-> <<>>, e |-> 0]

IsNaN(a) == a.k = "n"
IsInf(a) == a.k = "i"
IsZero(a) == a.k = "f" /\ a.m = <<>>

\* round (-1)^s * (m + sticky fraction) * 2^e to nearest, ties to even
FRound(s, m0, e, sticky) ==
    CHOOSE r \in {
        LET L == BitLen(m)
        IN  IF L = 0 THEN FZero(s)
            ELSE IF L <= MantBits THEN Fin(s, BShl(m, MantBits - L), e - (MantBits - L))
            ELSE LET d == L - MantBits
                 IN  CHOOSE r2 \in {
                         IF BitLen(k2) > MantBits
                         THEN Fin(s, BShr(k2, 1), e + d + 1)
                         ELSE Fin(s, k2, e + d)
                         : k2 \in {LET kept == BShr(m, d)
                                       c    == BCmp(BLow(m, d), BShl(<<1>>, d - 1))
                                   IN  CHOOSE k \in {
                                           IF \/ cc > 0
                                              \/ cc = 0 /\ sticky
                                              \/ cc = 0 /\ ~sticky /\ kk[1] % 2 = 1
                                           THEN BAdd(kk, <<1>>)
                                           ELSE kk
                                           : cc \in {c}, kk \in {kept}} : TRUE}} : TRUE
        : m \in {m0}} : TRUE

\* the f64 nearest to the integer n
F(n) == IF n >= 0 THEN FRound(0, BFromNat(n), 0, FALSE)
        ELSE FRound(1, BFromNat(-n), 0, FALSE)

FNeg(a0) == CHOOSE r \in {IF IsNaN(a) THEN a ELSE [a EXCEPT !.s = 1 - a.s] : a \in {a0}} : TRUE

\* |a| compared with |b| for finite a, b: -1, 0, 1
MagCmp(a, b) ==
    IF a.m = <<>> THEN (IF b.m = <<>> THEN 0 ELSE -1)
    ELSE IF b.m = <<>> THEN 1
    ELSE IF a.e < b.e THEN -1
    ELSE IF a.e > b.e THEN 1
    ELSE BCmp(a.m, b.m)

\* finite nonzero a, b with a.e >= b.e
FAddAligned(a, b) ==
    LET d == a.e - b.e
    IN  IF d > MantBits + 2
        THEN \* b is below the rounding position of a: it only breaks ties
             IF a.s = b.s THEN FRound(a.s, BShl(a.m, 2), a.e - 2, TRUE)
             ELSE FRound(a.s, BSub(BShl(a.m, 2), <<1>>), a.e - 2, TRUE)
        ELSE CHOOSE r \in {
                 IF a.s = b.s THEN FRound(a.s, BAdd(am, b.m), b.e, FALSE)
                 ELSE CHOOSE r2 \in {
                          IF c = 0 THEN FZero(0)
                          ELSE IF c > 0 THEN FRound(a.s, BSub(am, b.m), b.e, FALSE)
                          ELSE FRound(b.s, BSub(b.m, am), b.e, FALSE)
                          : c \in {BCmp(am, b.m)}} : TRUE
                 : am \in {BShl(a.m, d)}} : TRUE

\* a + b (the arguments are bound to a, b so that each is computed once)
FAdd(a0, b0) ==
    CHOOSE r \in {
        IF IsNaN(a) \/ IsNaN(b) THEN NaN
        ELSE IF IsInf(a) THEN (IF IsInf(b) /\ a.s # b.s THEN NaN ELSE a)
        ELSE IF IsInf(b) THEN b
        ELSE IF IsZero(a) /\ IsZero(b) THEN (IF a.s = 1 /\ b.s = 1 THEN FZero(1) ELSE FZero(0))
        ELSE IF IsZero(a) THEN b
        ELSE IF IsZero(b) THEN a
        ELSE IF a.e >= b.e THEN FAddAligned(a, b)
        ELSE FAddAligned(b, a)
        : a \in {a0}, b \in {b0}} : TRUE

\* a - b
FSub(a, b) == FAdd(a, FNeg(b))

\* a * b
FMul(a0, b0) ==
    CHOOSE r \in {
        IF IsNaN(a) \/ IsNaN(b) THEN NaN
        ELSE LET s == (a.s + b.s) % 2
             IN  IF IsInf(a) THEN (IF IsZero(b) THEN NaN ELSE FInf(s))
                 ELSE IF IsInf(b) THEN (IF IsZero(a) THEN NaN ELSE FInf(s))
                 ELSE IF IsZero(a) \/ IsZero(b) THEN FZero(s)
                 ELSE FRound(s, BMul(a.m, b.m), a.e + b.e, FALSE)
        : a \in {a0}, b \in {b0}} : TRUE

\* a / b
FDiv(a0, b0) ==
    CHOOSE r \in {
        IF IsNaN(a) \/ IsNaN(b) THEN NaN
        ELSE LET s == (a.s + b.s) % 2
             IN  IF IsInf(a) THEN (IF IsInf(b) THEN NaN ELSE FInf(s))
                 ELSE IF IsInf(b) THEN FZero(s)
                 ELSE IF IsZero(b) THEN (IF IsZero(a) THEN NaN ELSE FInf(s))
                 ELSE IF IsZero(a) THEN FZero(s)
                 ELSE LET c  == BCmp(a.m, b.m)
                          q0 == IF c >= 0 THEN <<1>> ELSE <<>>
                          r0 == IF c >= 0 THEN BSub(a.m, b.m) ELSE a.m
                      IN  CHOOSE r2 \in {
                              FRound(s, rq[2], a.e - b.e - (MantBits + 2), rq[1] # <<>>)
                              : rq \in {BDivBits(<<r0, q0>>, b.m, MantBits + 2)}} : TRUE
        : a \in {a0}, b \in {b0}} : TRUE

\* a < b, a <= b, a = b as IEEE comparisons (false when either is NaN)
FLt(a0, b0) ==
    \E a \in {a0}, b \in {b0} :
        IF IsNaN(a) \/ IsNaN(b) THEN FALSE
        ELSE IF IsInf(a) THEN (a.s = 1 /\ ~(IsInf(b) /\ b.s = 1))
        ELSE IF IsInf(b) THEN b.s = 0
        ELSE IF IsZero(a) /\ IsZero(b) THEN FALSE
        ELSE IF a.s # b.s THEN a.s = 1
        ELSE IF a.s = 0 THEN MagCmp(a, b) < 0
        ELSE MagCmp(a, b) > 0

FEq(a0, b0) ==
    \E a \in {a0}, b \in {b0} :
        IF IsNaN(a) \/ IsNaN(b) THEN FALSE
        ELSE IF IsZero(a) /\ IsZero(b) THEN TRUE
        ELSE a = b

FLe(a0, b0) == \E a \in {a0}, b \in {b0} : FLt(a, b) \/ FEq(a, b)
FGe(a, b) == FLe(b, a)

\* f64::min: the smaller argument, the other one when one is NaN
FMin(a0, b0) ==
    CHOOSE r \in {
        IF IsNaN(a) THEN b
        ELSE IF IsNaN(b) THEN a
        ELSE IF FLt(b, a) THEN b
        ELSE a
        : a \in {a0}, b \in {b0}} : TRUE

(***************************************************************************)
(* Program constants.                                                      *)
(***************************************************************************)
F0 == FZero(0)
F1 == F(1)

\* simulation.rs: ticks per second
TICK_RATE == F(10)
\* simulation.rs: EPSILON, 1e-6
EPSILON == FDiv(F1, F(1000000))

\* main.rs: QuantumGate::default().rolloff_time
DefaultRolloffTime == 15

Damage(health, mass_total, energy_total, build_time, health_points) ==
    [health |-> health, health_points |-> health_points, mass_total |-> mass_total,
     energy_total |-> energy_total, build_time |-> build_time]

ResourceProducer(mass_yield, energy_yield) ==
    [mass_yield |-> mass_yield, energy_yield |-> energy_yield,
     total_mass |-> F0, total_energy |-> F0]

\* ResourceConsumer::default()
ResourceConsumerDefault ==
    [mass_request |-> F0, energy_request |-> F0, mass_consumed |-> F0, energy_consumed |-> F0]

Engineering(build_rate) == [build_rate |-> build_rate]

\* the Constructing component as main.rs creates it: requests and
\* build_amount 0.0, both consumption multipliers 1.0
NewConstructing(target) ==
    [target |-> target, mass_requested |-> F0, energy_requested |-> F0,
     mass_consumption_multiplier |-> F1, energy_consumption_multiplier |-> F1,
     build_amount |-> F0]

SacrificeCapable(mass_efficiency, energy_efficiency) ==
    [mass_efficiency |-> mass_efficiency, energy_efficiency |-> energy_efficiency]

QuantumGate(rolloff_time, rolloff_current) ==
    [rolloff_time |-> rolloff_time, rolloff_current |-> rolloff_current]

\* main.rs constants for the RAS SACU the gate spawns
RAS_SACU_DAMAGE == Damage(F0, F(6450), F(117100), F(22800), 15000)
RAS_SACU_RESOURCE_PRODUCTION == ResourceProducer(FDiv(F(11), TICK_RATE), FDiv(F(1020), TICK_RATE))
RAS_SACU_SACRIFICE == SacrificeCapable(FDiv(F(9), F(10)), FDiv(F(9), F(10)))
RAS_SACU_ENGINEERING == Engineering(FDiv(F(56), TICK_RATE))

\* Economy::default() with the capacities given at construction
Economy(mass, energy, mass_capacity, energy_capacity) ==
    [mass |-> mass, energy |-> energy,
     mass_capacity |-> mass_capacity, energy_capacity |-> energy_capacity,
     mass_stall |-> F1, energy_stall |-> F1,
     mass_produced |-> F0, energy_produced |-> F0,
     mass_requested |-> F0, energy_requested |-> F0,
     mass_consumed |-> F0, energy_consumed |-> F0]

(***************************************************************************)
(* Bounds of the model.                                                    *)
(***************************************************************************)
\* number of ticks (calls of run()) a behaviour takes
MaxTick == 17
\* number of steps the driver takes between ticks
MaxDriverSteps == 1

(***************************************************************************)
(* The world.  Entities are the numbers in alive; a component is a         *)
(* function whose domain is the set of entities that have it, a tag is a   *)
(* set of entities.                                                        *)
(***************************************************************************)
VARIABLES
    tick,          \* CurrentTick
    pc,            \* the system the schedule runs next
    economy,       \* the Economy resource
    alive,         \* entities of the world
    nextId,        \* the next fresh entity
    executing,     \* tag Executing
    willExecute,   \* tag WillExecuteOnConstruct
    paused,        \* tag ConstructionPaused
    commander,     \* tag RASSupportCommander
    producer,      \* component ResourceProducer
    consumer,      \* component ResourceConsumer
    damage,        \* component Damage
    engineering,   \* component Engineering
    constructing,  \* component Constructing
    gate,          \* component QuantumGate
    sacCapable,    \* component SacrificeCapable
    sacrificing,   \* component Sacrificing
    changed,       \* entities whose Damage changed since execute_on_finished_construction last ran
    warnings,      \* lines the LogHandler was given
    tickStart,     \* observer: the stock at the start of the running tick
    settled,       \* observer: what do_construct did for each edge in its last run
    resolved,      \* observer: what construct_sacrifice did for each edge in its last run
    spawnLog,      \* observer: the spawns of the gates
    spent,         \* observer: the sums of the consumed totals of the ticks so far
    world,         \* observer: the name of the world the behaviour started from
    cleared,       \* observer: the gates whose Constructing edge was removed, and the tick
    driverSteps    \* steps the driver has taken

vars == <<tick, pc, economy, alive, nextId, executing, willExecute, paused, commander,
          producer, consumer, damage, engineering, constructing, gate, sacCapable,
          sacrificing, changed, warnings, tickStart, settled, resolved, spawnLog,
          spent, world, cleared, driverSteps>>

\* the iteration orders a query over the entities S can take
Orders(S) ==
    {f \in [1..Cardinality(S) -> S] : \A i, j \in 1..Cardinality(S) : i # j => f[i] # f[j]}

\* the component table f without the entities in S
Without(f, S) == [x \in DOMAIN f \ S |-> f[x]]

(***************************************************************************)
(* simulation.rs: count_tick                                               *)
(***************************************************************************)
CountTick ==
    /\ pc = "count_tick"
    /\ tick < MaxTick
    /\ tick' = tick + 1
    /\ tickStart' = [mass |-> economy.mass, energy |-> economy.energy]
    /\ pc' = "quantum_gate_spawn_construct"
    /\ UNCHANGED <<economy, alive, nextId, executing, willExecute, paused, commander,
                   producer, consumer, damage, engineering, constructing, gate,
                   sacCapable, sacrificing, changed, warnings, settled, resolved,
                   spawnLog, driverSteps,
                   spent, world, cleared>>

(***************************************************************************)
(* main.rs: quantum_gate_spawn_construct, and the commands it queued as    *)
(* applied at the end of the "unit spawning" stage                         *)
(***************************************************************************)
\* GateQuery without the Without<Constructing> filter
GateQueryWithConstructing ==
    {e \in DOMAIN gate : e \in executing /\ e \notin paused}

GateQuery ==
    {e \in DOMAIN gate : e \in executing /\ e \notin paused /\ e \notin DOMAIN constructing}

\* GateStep with the counter set to rolloff_time by the spawn, without the
\* sentinel -1
GateStepSkipsSentinel(acc, e) ==
    LET g == acc.gate[e]
    IN  IF g.rolloff_current > 0
        THEN [acc EXCEPT !.gate[e].rolloff_current = g.rolloff_current - 1]
        ELSE [gate |-> [acc.gate EXCEPT ![e].rolloff_current = g.rolloff_time],
              spawned |-> Append(acc.spawned, e)]

\* GateStep with the spawn in the step that brings the counter to 0
GateStepSpawnsOnReachingZero(acc, e) ==
    LET g == acc.gate[e]
    IN  IF g.rolloff_current > 1
        THEN [acc EXCEPT !.gate[e].rolloff_current = g.rolloff_current - 1]
        ELSE IF g.rolloff_current >= 0
        THEN [gate |-> [acc.gate EXCEPT ![e].rolloff_current = -1],
              spawned |-> Append(acc.spawned, e)]
        ELSE [acc EXCEPT !.gate[e].rolloff_current = g.rolloff_time]

\* the body of the loop for the gate e; acc.spawned lists the gates that spawn
GateStep(acc, e) ==
    LET g == acc.gate[e]
    IN  IF g.rolloff_current > 0
        THEN [acc EXCEPT !.gate[e].rolloff_current = g.rolloff_current - 1]
        ELSE IF g.rolloff_current = 0
        THEN [gate |-> [acc.gate EXCEPT ![e].rolloff_current = -1],
              spawned |-> Append(acc.spawned, e)]
        ELSE [acc EXCEPT !.gate[e].rolloff_current = g.rolloff_time]

RECURSIVE GateLoop(_, _, _)
GateLoop(ord, i, acc) ==
    IF i > Len(ord) THEN acc
    ELSE CHOOSE r \in {GateLoop(ord, i + 1, a2) : a2 \in {GateStep(acc, ord[i])}} : TRUE

QuantumGateSpawnConstruct ==
    /\ pc = "quantum_gate_spawn_construct"
    /\ \E ord \in Orders(GateQuery) :
         \E r \in {GateLoop(ord, 1, [gate |-> gate, spawned |-> <<>>])} :
         LET n      == Len(r.spawned)
             units  == nextId .. (nextId + n - 1)
             gates  == {r.spawned[k] : k \in 1..n}
             unitOf == [g \in gates |-> nextId - 1 + CHOOSE k \in 1..n : r.spawned[k] = g]
         IN  /\ gate' = r.gate
             /\ alive' = alive \cup units
             /\ nextId' = nextId + n
             /\ commander' = commander \cup units
             /\ willExecute' = willExecute \cup units
             /\ damage' = [u \in units |-> RAS_SACU_DAMAGE] @@ damage
             /\ engineering' = [u \in units |-> RAS_SACU_ENGINEERING] @@ engineering
             /\ producer' = [u \in units |-> RAS_SACU_RESOURCE_PRODUCTION] @@ producer
             /\ consumer' = [u \in units |-> ResourceConsumerDefault] @@ consumer
             /\ sacCapable' = [u \in units |-> RAS_SACU_SACRIFICE] @@ sacCapable
             /\ constructing' = [g \in gates |-> NewConstructing(unitOf[g])] @@ constructing
             /\ changed' = changed \cup units
             /\ spawnLog' = spawnLog \o [k \in 1..n |->
                                [gate |-> r.spawned[k], unit |-> nextId - 1 + k, tick |-> tick]]
    /\ pc' = "update"
    /\ UNCHANGED <<tick, economy, executing, paused, sacrificing, warnings, tickStart,
                   settled, resolved, driverSteps,
                   spent, world, cleared>>

(***************************************************************************)
(* The "update" stage: execute_on_finished_construction,                   *)
(* do_construct_resources_request and construct_sacrifice, run one after   *)
(* the other in an order the stage does not fix, on the stage's view w of  *)
(* the components they write; the commands they queue (w.cmd) take effect  *)
(* when the stage ends.                                                    *)
(***************************************************************************)
NoCommands ==
    [removeWillExecute |-> {}, insertExecuting |-> {}, removeConstructing |-> {},
     removeSacrificing |-> {}, despawn |-> {}]

\* ExecuteOnFinishedConstruction without the test of the health
ExecuteOnFinishedConstructionAnyHealth(w) ==
    LET finished == {e \in DOMAIN w.damage :
                        /\ e \in w.changed
                        /\ e \notin executing
                        /\ e \in willExecute}
    IN  [w EXCEPT !.cmd.removeWillExecute = @ \cup finished,
                  !.cmd.insertExecuting = @ \cup finished,
                  !.changed = {}]

\* simulation.rs: execute_on_finished_construction
ExecuteOnFinishedConstruction(w) ==
    LET finished == {e \in DOMAIN w.damage :
                        /\ e \in w.changed
                        /\ e \notin executing
                        /\ e \in willExecute
                        /\ FEq(w.damage[e].health, F1)}
    IN  [w EXCEPT !.cmd.removeWillExecute = @ \cup finished,
                  !.cmd.insertExecuting = @ \cup finished,
                  !.changed = {}]

\* RequestQuery without the filter Without<ConstructionPaused>
RequestQueryWithPaused ==
    {e \in (DOMAIN constructing \cap DOMAIN engineering) \cap DOMAIN consumer :
        e \in executing}

RequestQuery ==
    {e \in (DOMAIN constructing \cap DOMAIN engineering) \cap DOMAIN consumer :
        e \in executing /\ e \notin paused}

\* the Constructing component c after the request of a builder of rate
\* build_rate for the target with Damage td
RequestOf(c, build_rate, td) ==
    CHOOSE r \in {
        [c EXCEPT
            !.build_amount = build_amount,
            !.mass_requested =
                FMul(FMul(build_amount, td.mass_total), c.mass_consumption_multiplier),
            !.energy_requested =
                FMul(FMul(build_amount, td.energy_total), c.energy_consumption_multiplier)]
        : build_amount \in {FDiv(build_rate, td.build_time)}} : TRUE

\* DoConstructResourcesRequest with the edge to a missing target left in
\* place
DoConstructResourcesRequestKeepsDangling(w) ==
    LET found == {e \in RequestQuery : w.constructing[e].target \in DOMAIN w.damage}
    IN  CHOOSE r \in {
            [w EXCEPT
                !.constructing = [e \in DOMAIN w.constructing |->
                                    IF e \in found THEN req[e] ELSE w.constructing[e]],
                !.consumer = [e \in DOMAIN w.consumer |->
                                IF e \in found
                                THEN [w.consumer[e] EXCEPT
                                        !.mass_request = FAdd(@, req[e].mass_requested),
                                        !.energy_request = FAdd(@, req[e].energy_requested)]
                                ELSE w.consumer[e]]]
            : req \in {[e \in found |->
                          RequestOf(w.constructing[e], engineering[e].build_rate,
                                    w.damage[w.constructing[e].target])]}} : TRUE

\* DoConstructResourcesRequest with the despawns the stage has queued so
\* far taken as done
DoConstructResourcesRequestSeesDespawns(w) ==
    LET found == {e \in RequestQuery :
                     w.constructing[e].target \in DOMAIN w.damage \ w.cmd.despawn}
    IN  CHOOSE r \in {
            [w EXCEPT
                !.constructing = [e \in DOMAIN w.constructing |->
                                    IF e \in found THEN req[e] ELSE w.constructing[e]],
                !.consumer = [e \in DOMAIN w.consumer |->
                                IF e \in found
                                THEN [w.consumer[e] EXCEPT
                                        !.mass_request = FAdd(@, req[e].mass_requested),
                                        !.energy_request = FAdd(@, req[e].energy_requested)]
                                ELSE w.consumer[e]],
                !.cmd.removeConstructing = @ \cup (RequestQuery \ found)]
            : req \in {[e \in found |->
                          RequestOf(w.constructing[e], engineering[e].build_rate,
                                    w.damage[w.constructing[e].target])]}} : TRUE

\* simulation.rs: do_construct_resources_request
DoConstructResourcesRequest(w) ==
    LET found == {e \in RequestQuery : w.constructing[e].target \in DOMAIN w.damage}
    IN  CHOOSE r \in {
            [w EXCEPT
                !.constructing = [e \in DOMAIN w.constructing |->
                                    IF e \in found THEN req[e] ELSE w.constructing[e]],
                !.consumer = [e \in DOMAIN w.consumer |->
                                IF e \in found
                                THEN [w.consumer[e] EXCEPT
                                        !.mass_request = FAdd(@, req[e].mass_requested),
                                        !.energy_request = FAdd(@, req[e].energy_requested)]
                                ELSE w.consumer[e]],
                !.cmd.removeConstructing = @ \cup (RequestQuery \ found)]
            : req \in {[e \in found |->
                          RequestOf(w.constructing[e], engineering[e].build_rate,
                                    w.damage[w.constructing[e].target])]}} : TRUE

SacrificeQuery ==
    {e \in (DOMAIN damage \cap DOMAIN sacrificing) \cap DOMAIN sacCapable :
        e \in executing /\ e \notin paused}

\* the SacrificeInfo pushed for the source e with Damage d
SacrificeInfo(e, d) ==
    [source_entity |-> e,
     mass_available |-> FMul(FMul(d.mass_total, d.health), sacCapable[e].mass_efficiency),
     energy_available |-> FMul(FMul(d.energy_total, d.health), sacCapable[e].energy_efficiency),
     target_entity |-> sacrificing[e].target]

\* the health of a target with Damage td after the contribution of info
SacrificedHealth(info, td) ==
    FMin(FAdd(td.health, FMin(FDiv(info.mass_available, td.mass_total),
                              FDiv(info.energy_available, td.energy_total))),
         F1)

\* SacrificeStep with the target despawned in place of the source
SacrificeStepDespawnsTarget(w, info) ==
    LET t == info.target_entity
        s == info.source_entity
    IN  IF t \in DOMAIN w.damage
        THEN IF FGe(w.damage[t].health, F1)
             THEN [w EXCEPT
                     !.cmd.removeSacrificing = @ \cup {s},
                     !.resolved = Append(@, [info |-> info, branch |-> "finished",
                                             before |-> w.damage[t].health,
                                             after |-> w.damage[t].health])]
             ELSE CHOOSE r \in {
                      [w EXCEPT
                         !.damage[t].health = h,
                         !.changed = @ \cup {t},
                         !.cmd.despawn = @ \cup {t},
                         !.resolved = Append(@, [info |-> info, branch |-> "contributed",
                                                 before |-> w.damage[t].health,
                                                 after |-> h])]
                      : h \in {SacrificedHealth(info, w.damage[t])}} : TRUE
        ELSE [w EXCEPT
                !.cmd.removeSacrificing = @ \cup {s},
                !.resolved = Append(@, [info |-> info, branch |-> "gone",
                                        before |-> F0, after |-> F0])]

\* SacrificeStep with the source despawned whatever the resolver finds
SacrificeStepAlwaysDespawns(w, info) ==
    LET t == info.target_entity
        s == info.source_entity
    IN  IF t \in DOMAIN w.damage
        THEN IF FGe(w.damage[t].health, F1)
             THEN [w EXCEPT
                     !.cmd.despawn = @ \cup {s},
                     !.resolved = Append(@, [info |-> info, branch |-> "finished",
                                             before |-> w.damage[t].health,
                                             after |-> w.damage[t].health])]
             ELSE CHOOSE r \in {
                      [w EXCEPT
                         !.damage[t].health = h,
                         !.changed = @ \cup {t},
                         !.cmd.despawn = @ \cup {s},
                         !.resolved = Append(@, [info |-> info, branch |-> "contributed",
                                                 before |-> w.damage[t].health,
                                                 after |-> h])]
                      : h \in {SacrificedHealth(info, w.damage[t])}} : TRUE
        ELSE [w EXCEPT
                !.cmd.despawn = @ \cup {s},
                !.resolved = Append(@, [info |-> info, branch |-> "gone",
                                        before |-> F0, after |-> F0])]

\* SacrificeStep with the source kept when it contributes
SacrificeStepKeepsSource(w, info) ==
    LET t == info.target_entity
        s == info.source_entity
    IN  IF t \in DOMAIN w.damage
        THEN IF FGe(w.damage[t].health, F1)
             THEN [w EXCEPT
                     !.cmd.removeSacrificing = @ \cup {s},
                     !.resolved = Append(@, [info |-> info, branch |-> "finished",
                                             before |-> w.damage[t].health,
                                             after |-> w.damage[t].health])]
             ELSE CHOOSE r \in {
                      [w EXCEPT
                         !.damage[t].health = h,
                         !.changed = @ \cup {t},
                         !.cmd.removeSacrificing = @ \cup {s},
                         !.resolved = Append(@, [info |-> info, branch |-> "contributed",
                                                 before |-> w.damage[t].health,
                                                 after |-> h])]
                      : h \in {SacrificedHealth(info, w.damage[t])}} : TRUE
        ELSE [w EXCEPT
                !.cmd.removeSacrificing = @ \cup {s},
                !.resolved = Append(@, [info |-> info, branch |-> "gone",
                                        before |-> F0, after |-> F0])]

\* the body of the second loop of construct_sacrifice
SacrificeStep(w, info) ==
    LET t == info.target_entity
        s == info.source_entity
    IN  IF t \in DOMAIN w.damage
        THEN IF FGe(w.damage[t].health, F1)
             THEN [w EXCEPT
                     !.cmd.removeSacrificing = @ \cup {s},
                     !.resolved = Append(@, [info |-> info, branch |-> "finished",
                                             before |-> w.damage[t].health,
                                             after |-> w.damage[t].health])]
             ELSE CHOOSE r \in {
                      [w EXCEPT
                         !.damage[t].health = h,
                         !.changed = @ \cup {t},
                         !.cmd.despawn = @ \cup {s},
                         !.resolved = Append(@, [info |-> info, branch |-> "contributed",
                                                 before |-> w.damage[t].health,
                                                 after |-> h])]
                      : h \in {SacrificedHealth(info, w.damage[t])}} : TRUE
        ELSE [w EXCEPT
                !.cmd.removeSacrificing = @ \cup {s},
                !.resolved = Append(@, [info |-> info, branch |-> "gone",
                                        before |-> F0, after |-> F0])]

RECURSIVE SacrificeLoop(_, _, _)
SacrificeLoop(list, i, w) ==
    IF i > Len(list) THEN w
    ELSE CHOOSE r \in {SacrificeLoop(list, i + 1, w2) : w2 \in {SacrificeStep(w, list[i])}} : TRUE

\* construct_sacrifice with one loop: the contribution of a source is
\* computed from its Damage when its edge is resolved
RECURSIVE SacrificeLoopUnsnapshotted(_, _, _)
SacrificeLoopUnsnapshotted(ord, i, w) ==
    IF i > Len(ord) THEN w
    ELSE CHOOSE r \in {SacrificeLoopUnsnapshotted(ord, i + 1, w2)
                       : w2 \in {SacrificeStep(w, SacrificeInfo(ord[i], w.damage[ord[i]]))}}
             : TRUE

ConstructSacrificeUnsnapshotted(w, ord) ==
    SacrificeLoopUnsnapshotted(ord, 1, [w EXCEPT !.resolved = <<>>])

\* main.rs: construct_sacrifice, its query iterated in the order ord
ConstructSacrifice(w, ord) ==
    CHOOSE r \in {
        SacrificeLoop(sacrifice_list, 1, [w EXCEPT !.resolved = <<>>])
        : sacrifice_list \in {[i \in 1..Len(ord) |->
                                 SacrificeInfo(ord[i], w.damage[ord[i]])]}} : TRUE

UpdateSystems ==
    {"execute_on_finished_construction", "do_construct_resources_request",
     "construct_sacrifice"}

RunUpdateSystem(name, w, ord) ==
    IF name = "execute_on_finished_construction" THEN ExecuteOnFinishedConstruction(w)
    ELSE IF name = "do_construct_resources_request" THEN DoConstructResourcesRequest(w)
    ELSE ConstructSacrifice(w, ord)

\* the three systems run in the order sys on the world as the stage finds it
RunUpdateSystems(sys, ord) ==
    CHOOSE w3 \in {
        RunUpdateSystem(sys[3], w2, ord)
        : w2 \in {RunUpdateSystem(sys[2], w1, ord)
                  : w1 \in {RunUpdateSystem(sys[1], w0, ord)
                            : w0 \in {[damage |-> damage, constructing |-> constructing,
                                       consumer |-> consumer, changed |-> changed,
                                       cmd |-> NoCommands, resolved |-> resolved]}}}} : TRUE

UpdateStage ==
    /\ pc = "update"
    /\ \E sys \in Orders(UpdateSystems), ord \in Orders(SacrificeQuery) :
         \E w \in {RunUpdateSystems(sys, ord)} :
         LET gone == w.cmd.despawn
         IN  /\ alive' = alive \ gone
             /\ executing' = (executing \cup w.cmd.insertExecuting) \ gone
             /\ willExecute' = (willExecute \ w.cmd.removeWillExecute) \ gone
             /\ paused' = paused \ gone
             /\ commander' = commander \ gone
             /\ producer' = Without(producer, gone)
             /\ consumer' = Without(w.consumer, gone)
             /\ damage' = Without(w.damage, gone)
             /\ engineering' = Without(engineering, gone)
             /\ constructing' = Without(w.constructing, gone \cup w.cmd.removeConstructing)
             /\ gate' = Without(gate, gone)
             /\ sacCapable' = Without(sacCapable, gone)
             /\ sacrificing' = Without(sacrificing, gone \cup w.cmd.removeSacrificing)
             /\ changed' = w.changed \ gone
             /\ resolved' = w.resolved
             /\ cleared' = cleared \cup {[gate |-> g, tick |-> tick] :
                                        g \in (DOMAIN gate \cap w.cmd.removeConstructing) \ gone}
    /\ pc' = "economy_resource_producers"
    /\ UNCHANGED <<tick, economy, nextId, warnings, tickStart, settled, spawnLog, driverSteps,
                   spent, world>>

(***************************************************************************)
(* The "economy request" stage: economy_resource_producers, then           *)
(* economy_process_resource_requests                                       *)
(***************************************************************************)
ProducerQuery == {e \in DOMAIN producer : e \in executing}

ConsumerQuery == {e \in DOMAIN consumer : e \in executing}

\* acc + f[ord[i]][field] + ... + f[ord[Len(ord)]][field], added in this order
RECURSIVE SumField(_, _, _, _, _)
SumField(f, field, ord, i, acc) ==
    IF i > Len(ord) THEN acc
    ELSE CHOOSE r \in {SumField(f, field, ord, i + 1, a2)
                       : a2 \in {FAdd(acc, f[ord[i]][field])}} : TRUE

\* Produced with the stock clamped to the capacity when the yield is added
ProducedClamped(eco, total_mass, total_energy) ==
    [eco EXCEPT !.mass = FMin(eco.mass_capacity, FAdd(eco.mass, total_mass)),
                !.energy = FMin(eco.energy_capacity, FAdd(eco.energy, total_energy)),
                !.mass_produced = total_mass,
                !.energy_produced = total_energy]

\* the Economy after production accounting with the given totals
Produced(eco, total_mass, total_energy) ==
    [eco EXCEPT !.mass = FAdd(eco.mass, total_mass),
                !.energy = FAdd(eco.energy, total_energy),
                !.mass_produced = total_mass,
                !.energy_produced = total_energy]

\* simulation.rs: economy_resource_producers
EconomyResourceProducers ==
    /\ pc = "economy_resource_producers"
    /\ \E ord \in Orders(ProducerQuery) :
         /\ economy' = Produced(economy, SumField(producer, "mass_yield", ord, 1, F0),
                                SumField(producer, "energy_yield", ord, 1, F0))
         /\ producer' = [e \in DOMAIN producer |->
                            IF e \in ProducerQuery
                            THEN [producer[e] EXCEPT
                                    !.total_mass = FAdd(@, producer[e].mass_yield),
                                    !.total_energy = FAdd(@, producer[e].energy_yield)]
                            ELSE producer[e]]
    /\ pc' = "economy_process_resource_requests"
    /\ UNCHANGED <<tick, alive, nextId, executing, willExecute, paused, commander, consumer,
                   damage, engineering, constructing, gate, sacCapable, sacrificing, changed,
                   warnings, tickStart, settled, resolved, spawnLog, driverSteps,
                   spent, world, cleared>>

\* the stall ratio of a resource with the given stock and total request
Stall(stock, total_requested) == FMin(F1, FDiv(stock, total_requested))

\* Requested with the stall ratios taken against the stock the tick started
\* with, before the production of the tick
RequestedBeforeProduction(eco, total_mass_requested, total_energy_requested) ==
    [eco EXCEPT !.mass_stall = Stall(tickStart.mass, total_mass_requested),
                !.energy_stall = Stall(tickStart.energy, total_energy_requested),
                !.mass_requested = total_mass_requested,
                !.energy_requested = total_energy_requested]

\* the Economy after request aggregation with the given totals
Requested(eco, total_mass_requested, total_energy_requested) ==
    [eco EXCEPT !.mass_stall = Stall(eco.mass, total_mass_requested),
                !.energy_stall = Stall(eco.energy, total_energy_requested),
                !.mass_requested = total_mass_requested,
                !.energy_requested = total_energy_requested]

\* simulation.rs: economy_process_resource_requests
EconomyProcessResourceRequests ==
    /\ pc = "economy_process_resource_requests"
    /\ \E ord \in Orders(ConsumerQuery) :
         economy' = Requested(economy, SumField(consumer, "mass_request", ord, 1, F0),
                              SumField(consumer, "energy_request", ord, 1, F0))
    /\ pc' = "do_construct"
    /\ UNCHANGED <<tick, alive, nextId, executing, willExecute, paused, commander, producer,
                   consumer, damage, engineering, constructing, gate, sacCapable, sacrificing,
                   changed, warnings, tickStart, settled, resolved, spawnLog, driverSteps,
                   spent, world, cleared>>

(***************************************************************************)
(* The "resource usage" stage: do_construct                                *)
(***************************************************************************)
ConstructQuery ==
    {e \in DOMAIN constructing \cap DOMAIN consumer : e \in executing /\ e \notin paused}

\* what one edge c settles against a target with Damage td under the
\* stall ratios of eco: the target's new health, the amounts added to the
\* builder's consumed counters and whether the edge is dropped
Settlement(c, td, eco) ==
    LET mass_available ==
            FDiv(FMul(c.mass_requested, eco.mass_stall), c.mass_consumption_multiplier)
        energy_available ==
            FDiv(FMul(c.energy_requested, eco.energy_stall), c.energy_consumption_multiplier)
    IN  CHOOSE r \in {
            LET mass_used ==
                    FMul(FMul(min_portion, td.mass_total), c.mass_consumption_multiplier)
                energy_used ==
                    FMul(FMul(min_portion, td.energy_total), c.energy_consumption_multiplier)
            IN  IF FGe(FAdd(td.health, min_portion), F1)
                THEN LET mass_remaining == FMul(FSub(F1, td.health), td.mass_total)
                         energy_remaining == FMul(FSub(F1, td.health), td.energy_total)
                     IN  [branch |-> "completed", health |-> F1,
                          mass |-> FMul(mass_remaining, c.mass_consumption_multiplier),
                          energy |-> FMul(energy_remaining, c.energy_consumption_multiplier),
                          min_portion |-> min_portion]
                ELSE [branch |-> "progress", health |-> FAdd(td.health, min_portion),
                      mass |-> mass_used, energy |-> energy_used,
                      min_portion |-> min_portion]
            : min_portion \in {FMin(FDiv(mass_available, td.mass_total),
                                    FDiv(energy_available, td.energy_total))}} : TRUE

\* ConstructStep with the edge to a finished target left in place
ConstructStepKeepsEdge(w, e) ==
    LET c == constructing[e]
        t == c.target
    IN  IF t \in DOMAIN w.damage
        THEN IF FGe(w.damage[t].health, F1)
             THEN [w EXCEPT
                     !.settled = Append(@, [builder |-> e, target |-> t, branch |-> "done",
                                            before |-> w.damage[t].health,
                                            after |-> w.damage[t].health,
                                            mass |-> F0, energy |-> F0])]
             ELSE CHOOSE w2 \in {
                      [w EXCEPT
                         !.consumer[e].mass_consumed = FAdd(@, r.mass),
                         !.consumer[e].energy_consumed = FAdd(@, r.energy),
                         !.damage[t].health = r.health,
                         !.changed = @ \cup {t},
                         !.remove = IF r.branch = "completed" THEN @ \cup {e} ELSE @,
                         !.settled = Append(@, [builder |-> e, target |-> t,
                                                branch |-> r.branch,
                                                before |-> w.damage[t].health,
                                                after |-> r.health,
                                                mass |-> r.mass, energy |-> r.energy])]
                      : r \in {Settlement(c, w.damage[t], economy)}} : TRUE
        ELSE w

\* the body of the loop of do_construct for the builder e
ConstructStep(w, e) ==
    LET c == constructing[e]
        t == c.target
    IN  IF t \in DOMAIN w.damage
        THEN IF FGe(w.damage[t].health, F1)
             THEN [w EXCEPT
                     !.remove = @ \cup {e},
                     !.settled = Append(@, [builder |-> e, target |-> t, branch |-> "done",
                                            before |-> w.damage[t].health,
                                            after |-> w.damage[t].health,
                                            mass |-> F0, energy |-> F0])]
             ELSE CHOOSE w2 \in {
                      [w EXCEPT
                         !.consumer[e].mass_consumed = FAdd(@, r.mass),
                         !.consumer[e].energy_consumed = FAdd(@, r.energy),
                         !.damage[t].health = r.health,
                         !.changed = @ \cup {t},
                         !.remove = IF r.branch = "completed" THEN @ \cup {e} ELSE @,
                         !.settled = Append(@, [builder |-> e, target |-> t,
                                                branch |-> r.branch,
                                                before |-> w.damage[t].health,
                                                after |-> r.health,
                                                mass |-> r.mass, energy |-> r.energy])]
                      : r \in {Settlement(c, w.damage[t], economy)}} : TRUE
        ELSE w

RECURSIVE ConstructLoop(_, _, _)
ConstructLoop(ord, i, w) ==
    IF i > Len(ord) THEN w
    ELSE CHOOSE r \in {ConstructLoop(ord, i + 1, w2) : w2 \in {ConstructStep(w, ord[i])}} : TRUE

\* simulation.rs: do_construct, and the commands it queued as applied at the
\* end of the stage
DoConstruct ==
    /\ pc = "do_construct"
    /\ \E ord \in Orders(ConstructQuery) :
         \E w \in {ConstructLoop(ord, 1, [damage |-> damage, consumer |-> consumer,
                                           changed |-> changed, remove |-> {},
                                           settled |-> <<>>])} :
             /\ damage' = w.damage
             /\ consumer' = w.consumer
             /\ changed' = w.changed
             /\ constructing' = Without(constructing, w.remove)
             /\ settled' = w.settled
             /\ cleared' = cleared \cup {[gate |-> g, tick |-> tick] :
                                        g \in DOMAIN gate \cap w.remove}
    /\ pc' = "economy_process_resource_consumption"
    /\ UNCHANGED <<tick, economy, alive, nextId, executing, willExecute, paused, commander,
                   producer, engineering, gate, sacCapable, sacrificing, warnings, tickStart,
                   resolved, spawnLog, driverSteps,
                   spent, world>>

(***************************************************************************)
(* The "economy accounting" stage: economy_process_resource_consumption    *)
(***************************************************************************)
\* the Economy after consumption accounting with the given totals
Consumed(eco, total_mass_consumed, total_energy_consumed) ==
    [eco EXCEPT !.mass = FMin(eco.mass_capacity, FSub(eco.mass, total_mass_consumed)),
                !.energy = FMin(eco.energy_capacity, FSub(eco.energy, total_energy_consumed)),
                !.mass_consumed = total_mass_consumed,
                !.energy_consumed = total_energy_consumed]

\* the condition of the overconsumption warning
Overconsumption(eco) == FLt(eco.mass, F(-1)) \/ FLt(eco.energy, F(-1))

EconomyProcessResourceConsumption ==
    /\ pc = "economy_process_resource_consumption"
    /\ \E ord \in Orders(ConsumerQuery) :
         \E eco \in {Consumed(economy, SumField(consumer, "mass_consumed", ord, 1, F0),
                               SumField(consumer, "energy_consumed", ord, 1, F0))} :
             /\ economy' = eco
             /\ spent' = [mass |-> FAdd(spent.mass, eco.mass_consumed),
                          energy |-> FAdd(spent.energy, eco.energy_consumed)]
             /\ warnings' = IF Overconsumption(eco)
                            THEN Append(warnings, [tick |-> tick, mass |-> eco.mass,
                                                   energy |-> eco.energy])
                            ELSE warnings
    /\ consumer' = [e \in DOMAIN consumer |->
                      IF e \in ConsumerQuery THEN ResourceConsumerDefault ELSE consumer[e]]
    /\ pc' = "count_tick"
    /\ UNCHANGED <<tick, alive, nextId, executing, willExecute, paused, commander, producer,
                   damage, engineering, constructing, gate, sacCapable, sacrificing, changed,
                   tickStart, settled, resolved, spawnLog, driverSteps,
                   world, cleared>>

(***************************************************************************)
(* The driver between two ticks (main.rs, "sacrifice sacus"): an executing *)
(* sacrifice-capable entity stops constructing and sacrifices itself into  *)
(* a target.                                                               *)
(***************************************************************************)
Sacrifice(e, t) ==
    /\ pc = "count_tick"
    /\ driverSteps < MaxDriverSteps
    /\ e \in DOMAIN sacCapable
    /\ e \in executing
    /\ e \notin DOMAIN sacrificing
    /\ t \in DOMAIN damage
    /\ t # e
    /\ constructing' = Without(constructing, {e})
    /\ sacrificing' = (e :> [target |-> t]) @@ sacrificing
    /\ driverSteps' = driverSteps + 1
    /\ UNCHANGED <<tick, pc, economy, alive, nextId, executing, willExecute, paused,
                   commander, producer, consumer, damage, engineering, gate, sacCapable,
                   changed, warnings, tickStart, settled, resolved, spawnLog,
                   spent, world, cleared>>

(***************************************************************************)
(* The worlds a behaviour starts from: the resources FASimulation::new and *)
(* RASSimulation::new insert, and the entities a driver spawns before the  *)
(* first tick.                                                             *)
(***************************************************************************)
\* FASimulation::new and RASSimulation::new with a stock of mass and energy
FAEconomy(mass, energy) == Economy(mass, energy, F(4000), F(100000))
RASEconomy(mass, energy) == Economy(mass, energy, F(40000), F(100000))

EmptyWorld ==
    [economy |-> RASEconomy(F0, F0), alive |-> {}, executing |-> {}, willExecute |-> {},
     paused |-> {}, commander |-> {}, producer |-> <<>>, consumer |-> <<>>,
     damage |-> <<>>, engineering |-> <<>>, constructing |-> <<>>, gate |-> <<>>,
     sacCapable |-> <<>>, sacrificing |-> <<>>]

\* Scenario A: a producer of 10/10 per tick, a builder of build_amount 0.1
\* and a target of 100 mass / 100 energy, no stock
WorldA ==
    [EmptyWorld EXCEPT
        !.economy = FAEconomy(F0, F0),
        !.alive = {1, 2, 3},
        !.executing = {1, 2},
        !.producer = (1 :> ResourceProducer(F(10), F(10))),
        !.engineering = (2 :> Engineering(F1)),
        !.consumer = (2 :> ResourceConsumerDefault),
        !.constructing = (2 :> NewConstructing(3)),
        !.damage = (3 :> Damage(F0, F(100), F(100), F(10), 100))]

\* Scenario B: a stock of 100 mass, no production, two builders that request
\* m1 and m2 mass per tick (build_amount 0.1 of targets costing 10 * m1 and
\* 10 * m2 mass), energy plentiful
WorldB(m1, m2) ==
    [EmptyWorld EXCEPT
        !.economy = RASEconomy(F(100), F(1000)),
        !.alive = {1, 2, 3, 4},
        !.executing = {1, 2},
        !.engineering = (1 :> Engineering(F1)) @@ (2 :> Engineering(F1)),
        !.consumer = (1 :> ResourceConsumerDefault) @@ (2 :> ResourceConsumerDefault),
        !.constructing = (1 :> NewConstructing(3)) @@ (2 :> NewConstructing(4)),
        !.damage = (3 :> Damage(F0, F(10 * m1), F(100), F(10), 100))
                   @@ (4 :> Damage(F0, F(10 * m2), F(100), F(10), 100))]

\* one builder of rate build_rate and one target, a stock of mass and no
\* production
WorldE(mass, build_rate, mass_total, energy_total, build_time) ==
    [EmptyWorld EXCEPT
        !.economy = RASEconomy(F(mass), F(100000)),
        !.alive = {1, 2},
        !.executing = {1},
        !.engineering = (1 :> Engineering(F(build_rate))),
        !.consumer = (1 :> ResourceConsumerDefault),
        !.constructing = (1 :> NewConstructing(2)),
        !.damage = (2 :> Damage(F0, F(mass_total), F(energy_total), F(build_time), 100))]

\* a stock just below capacity, a producer and a slow builder
WorldK ==
    [EmptyWorld EXCEPT
        !.economy = FAEconomy(F(3995), F(99995)),
        !.alive = {1, 2, 3},
        !.executing = {1, 2},
        !.producer = (1 :> ResourceProducer(F(10), F(10))),
        !.engineering = (2 :> Engineering(F1)),
        !.consumer = (2 :> ResourceConsumerDefault),
        !.constructing = (2 :> NewConstructing(3)),
        !.damage = (3 :> Damage(F0, F(30), F(60), F(10), 100))]

Half == FDiv(F1, F(2))
NineTenths == FDiv(F(9), F(10))

\* Scenario D: the half-built source 1 (100 mass, efficiency 0.9) sacrifices
\* into the target 2 of 450 mass; the builder 3 is constructing the source
WorldD ==
    [EmptyWorld EXCEPT
        !.alive = {1, 2, 3},
        !.executing = {1, 3},
        !.damage = (1 :> Damage(Half, F(100), F(100), F(10), 100))
                   @@ (2 :> Damage(F0, F(450), F(100), F(10), 100)),
        !.sacCapable = (1 :> SacrificeCapable(NineTenths, NineTenths)),
        !.sacrificing = (1 :> [target |-> 2]),
        !.engineering = (3 :> Engineering(F1)),
        !.consumer = (3 :> ResourceConsumerDefault),
        !.constructing = (3 :> NewConstructing(1))]

\* the complete sources 1 and 2 sacrifice into the target 3, which the
\* source 1 completes and the source 2 does not; the builder 4 is
\* constructing the target
WorldD2 ==
    [EmptyWorld EXCEPT
        !.economy = RASEconomy(F(1000), F(1000)),
        !.alive = {1, 2, 3, 4},
        !.executing = {1, 2, 4},
        !.damage = (1 :> Damage(F1, F(300), F(300), F(10), 100))
                   @@ (2 :> Damage(F1, F(20), F(300), F(10), 100))
                   @@ (3 :> Damage(F0, F(100), F(100), F(10), 100)),
        !.sacCapable = (1 :> SacrificeCapable(NineTenths, NineTenths))
                       @@ (2 :> SacrificeCapable(NineTenths, NineTenths)),
        !.sacrificing = (1 :> [target |-> 3]) @@ (2 :> [target |-> 3]),
        !.engineering = (4 :> Engineering(F1)),
        !.consumer = (4 :> ResourceConsumerDefault),
        !.constructing = (4 :> NewConstructing(3))]

\* a chain: the source 1 sacrifices into 2, which sacrifices into 3
WorldD3 ==
    [EmptyWorld EXCEPT
        !.alive = {1, 2, 3},
        !.executing = {1, 2},
        !.willExecute = {3},
        !.damage = (1 :> Damage(F1, F(100), F(100), F(10), 100))
                   @@ (2 :> Damage(Half, F(200), F(200), F(10), 100))
                   @@ (3 :> Damage(F0, F(360), F(360), F(10), 100)),
        !.sacCapable = (1 :> SacrificeCapable(NineTenths, NineTenths))
                       @@ (2 :> SacrificeCapable(NineTenths, NineTenths)),
        !.sacrificing = (1 :> [target |-> 2]) @@ (2 :> [target |-> 3])]

\* a stock of 100 mass, the builder 1, tagged ConstructionPaused, which
\* produces 10 mass and 100 energy per tick and holds an edge to the target
\* 4, and the builder 2, not paused, with an edge to the target 3
WorldU ==
    [EmptyWorld EXCEPT
        !.economy = RASEconomy(F(100), F(1000)),
        !.alive = {1, 2, 3, 4},
        !.executing = {1, 2},
        !.paused = {1},
        !.producer = (1 :> ResourceProducer(F(10), F(100))),
        !.engineering = (1 :> Engineering(F1)) @@ (2 :> Engineering(F1)),
        !.consumer = (1 :> ResourceConsumerDefault) @@ (2 :> ResourceConsumerDefault),
        !.constructing = (1 :> NewConstructing(4)) @@ (2 :> NewConstructing(3)),
        !.damage = (3 :> Damage(F0, F(100), F(100), F(10), 100))
                   @@ (4 :> Damage(F0, F(100), F(100), F(10), 100))]

\* the chain of WorldD3 with the source 1 complete but not yet executing:
\* it starts to execute when the first update stage ends, in which the
\* source 2, its target, is sacrificed
WorldD4 ==
    [WorldD3 EXCEPT !.executing = {2}, !.willExecute = {1, 3}]

\* main.rs in small: the sacrifice-capable units 1 and 2, which also produce,
\* construct the half-built target 3; the driver may sacrifice them
WorldM ==
    [EmptyWorld EXCEPT
        !.alive = {1, 2, 3},
        !.executing = {1, 2},
        !.commander = {1, 2},
        !.willExecute = {3},
        !.producer = (1 :> ResourceProducer(F(20), F(20)))
                     @@ (2 :> ResourceProducer(F(20), F(20))),
        !.engineering = (1 :> Engineering(F(10))) @@ (2 :> Engineering(F(5))),
        !.consumer = (1 :> ResourceConsumerDefault) @@ (2 :> ResourceConsumerDefault),
        !.constructing = (1 :> NewConstructing(3)) @@ (2 :> NewConstructing(3)),
        !.damage = (1 :> Damage(F1, F(300), F(300), F(10), 100))
                   @@ (2 :> Damage(F1, F(300), F(300), F(10), 100))
                   @@ (3 :> Damage(Half, F(1000), F(1000), F(100), 100)),
        !.sacCapable = (1 :> SacrificeCapable(NineTenths, NineTenths))
                       @@ (2 :> SacrificeCapable(NineTenths, NineTenths))]

\* main.rs: the gate (with the rolloff counter at rolloff_current) and the
\* producer of mass_yield mass and 100000 energy per second
WorldG(rolloff_current, mass_yield) ==
    [EmptyWorld EXCEPT
        !.alive = {1, 2},
        !.executing = {1, 2},
        !.gate = (1 :> QuantumGate(DefaultRolloffTime, rolloff_current)),
        !.consumer = (1 :> ResourceConsumerDefault),
        !.engineering = (1 :> Engineering(FDiv(F(120000), TICK_RATE))),
        !.producer = (2 :> ResourceProducer(FDiv(F(mass_yield), TICK_RATE),
                                            FDiv(F(100000), TICK_RATE)))]

\* a gate of rolloff_time 1 and build rate build_rate per tick with a full
\* stock, and a producer of 4000 mass and energy_yield energy per tick
WorldH(build_rate, energy_yield) ==
    [EmptyWorld EXCEPT
        !.economy = RASEconomy(F(40000), F(100000)),
        !.alive = {1, 2},
        !.executing = {1, 2},
        !.gate = (1 :> QuantumGate(1, 0)),
        !.consumer = (1 :> ResourceConsumerDefault),
        !.engineering = (1 :> Engineering(F(build_rate))),
        !.producer = (2 :> ResourceProducer(F(4000), F(energy_yield)))]

\* Scenario A at a large scale: no stock, a producer of 1e17 mass per tick
\* and a builder that requests a third of a target of 1e18 mass per tick
WorldP ==
    [EmptyWorld EXCEPT
        !.economy = RASEconomy(F0, F(100000)),
        !.alive = {1, 2, 3},
        !.executing = {1, 2},
        !.producer = (1 :> ResourceProducer(FMul(F(100000000), F(1000000000)), F0)),
        !.engineering = (2 :> Engineering(F1)),
        !.consumer = (2 :> ResourceConsumerDefault),
        !.constructing = (2 :> NewConstructing(3)),
        !.damage = (3 :> Damage(F0, FMul(F(1000000000), F(1000000000)), F(10), F(3), 100))]

\* a buildable entity created with a build_time of 0: World::spawn and
\* insert take any Damage
WorldZ == WorldE(100, 1, 100, 100, 0)

\* the worlds by name
Worlds ==
    [A |-> WorldA, B75 |-> WorldB(75, 75), B100 |-> WorldB(100, 50),
     E100 |-> WorldE(100, 1, 1000, 10, 3), E10 |-> WorldE(10, 3, 10, 10, 7),
     K |-> WorldK, D |-> WorldD, D2 |-> WorldD2, D3 |-> WorldD3, M |-> WorldM,
     G0 |-> WorldG(0, 40000), G15 |-> WorldG(DefaultRolloffTime, 40000),
     Z |-> WorldZ, H |-> WorldH(5700, 12000), P |-> WorldP, D4 |-> WorldD4,
     U |-> WorldU]

Init ==
    \E name \in DOMAIN Worlds : \E w \in {Worlds[name]} :
        /\ world = name
        /\ spent = [mass |-> F0, energy |-> F0]
        /\ tick = 0
        /\ pc = "count_tick"
        /\ economy = w.economy
        /\ alive = w.alive
        /\ nextId = Cardinality(w.alive) + 1
        /\ executing = w.executing
        /\ willExecute = w.willExecute
        /\ paused = w.paused
        /\ commander = w.commander
        /\ producer = w.producer
        /\ consumer = w.consumer
        /\ damage = w.damage
        /\ engineering = w.engineering
        /\ constructing = w.constructing
        /\ gate = w.gate
        /\ sacCapable = w.sacCapable
        /\ sacrificing = w.sacrificing
        /\ changed = DOMAIN w.damage
        /\ warnings = <<>>
        /\ tickStart = [mass |-> w.economy.mass, energy |-> w.economy.energy]
        /\ settled = <<>>
        /\ resolved = <<>>
        /\ spawnLog = <<>>
        /\ cleared = {}
        /\ driverSteps = 0

\* RASSimulation::run: the stages of the schedule in their order, and the
\* driver between two runs
Next ==
    \/ CountTick
    \/ QuantumGateSpawnConstruct
    \/ UpdateStage
    \/ EconomyResourceProducers
    \/ EconomyProcessResourceRequests
    \/ DoConstruct
    \/ EconomyProcessResourceConsumption
    \/ \E e \in alive, t \in alive : Sacrifice(e, t)

Spec == Init /\ [][Next]_vars

(***************************************************************************)
(* Properties.                                                             *)
(***************************************************************************)
\* the stage that has just run
AfterUpdate == pc = "economy_resource_producers"
AfterRequests == pc = "do_construct"
AfterSettlement == pc = "economy_process_resource_consumption"
AfterTick == pc = "count_tick" /\ tick > 0

InUnitInterval(x) == FLe(F0, x) /\ FLe(x, F1)

\* C1: after request aggregation both stall ratios lie in [0, 1], and the
\* stall ratio of a resource is 1 when the total requested of it is 0
C1_StallInUnitInterval ==
    AfterRequests =>
        /\ InUnitInterval(economy.mass_stall)
        /\ InUnitInterval(economy.energy_stall)
        /\ FEq(economy.mass_requested, F0) => FEq(economy.mass_stall, F1)
        /\ FEq(economy.energy_requested, F0) => FEq(economy.energy_stall, F1)

\* C2: from one stage to the next the health of an entity never decreases
\* and never exceeds 1.0
C2_HealthMonotone ==
    [][\A e \in DOMAIN damage \cap DOMAIN damage' :
          /\ FLe(damage[e].health, damage'[e].health)
          /\ FLe(damage'[e].health, F1)]_vars

\* C3: after settlement every executing consumer has consumed at most its
\* request times the stall ratio, for mass and for energy (the product and
\* the comparison taken in f64, as the ledger holds them)
C3_NoOverdraw ==
    AfterSettlement =>
        \A e \in ConsumerQuery :
            /\ FLe(consumer[e].mass_consumed,
                   FMul(consumer[e].mass_request, economy.mass_stall))
            /\ FLe(consumer[e].energy_consumed,
                   FMul(consumer[e].energy_request, economy.energy_stall))

\* C4: the stock a tick ends with is min(capacity, stock at the start of the
\* tick + the yields of the executing producers - the consumption of the
\* executing consumers), for mass and for energy
C4_LedgerConservation ==
    [][pc = "economy_process_resource_consumption" =>
          \E po \in Orders(ProducerQuery), co \in Orders(ConsumerQuery) :
              /\ FEq(economy'.mass,
                     FMin(economy.mass_capacity,
                          FSub(FAdd(tickStart.mass,
                                    SumField(producer, "mass_yield", po, 1, F0)),
                               SumField(consumer, "mass_consumed", co, 1, F0))))
              /\ FEq(economy'.energy,
                     FMin(economy.energy_capacity,
                          FSub(FAdd(tickStart.energy,
                                    SumField(producer, "energy_yield", po, 1, F0)),
                               SumField(consumer, "energy_consumed", co, 1, F0))))]_vars

\* a tick has ended with production, consumption and the mass stock held at
\* the capacity by the clamp
C4_Witness ==
    /\ AfterTick
    /\ FLt(F0, economy.mass_produced)
    /\ FLt(F0, economy.mass_consumed)
    /\ FEq(economy.mass, economy.mass_capacity)
    /\ FLt(economy.mass_capacity,
           FSub(FAdd(tickStart.mass, economy.mass_produced), economy.mass_consumed))

\* C5: a settlement that finds the target of an edge at health 1.0 adds
\* nothing to the builder's consumed counters, leaves the health at 1.0 and
\* removes the edge
C5_SettlementIdempotent ==
    AfterSettlement =>
        \A i \in DOMAIN settled :
            FGe(settled[i].before, F1) =>
                /\ FEq(consumer[settled[i].builder].mass_consumed, F0)
                /\ FEq(consumer[settled[i].builder].energy_consumed, F0)
                /\ FEq(damage[settled[i].target].health, F1)
                /\ settled[i].builder \notin DOMAIN constructing

\* a settlement has found the target of a builder with a positive request
\* already complete
C5_Witness ==
    /\ AfterSettlement
    /\ \E i \in DOMAIN settled :
          /\ FGe(settled[i].before, F1)
          /\ FLt(F0, consumer[settled[i].builder].mass_request)

\* C6 as stated: after the resolver has resolved an edge whose target
\* exists, the source is no longer in the store
C6_SacrificeDestructive ==
    AfterUpdate =>
        \A i \in DOMAIN resolved :
            resolved[i].branch # "gone" => resolved[i].info.source_entity \notin alive

\* C6 amended: after the resolver has resolved an edge whose target exists
\* and was below health 1.0 when the edge was resolved, the source is no
\* longer in the store
C6_SacrificeDestructiveUnlessFinished ==
    AfterUpdate =>
        \A i \in DOMAIN resolved :
            (resolved[i].branch # "gone" /\ FLt(resolved[i].before, F1)) =>
                resolved[i].info.source_entity \notin alive

\* two sources were resolved against one target in one run; both
\* contributed and are gone
C6_Witness ==
    /\ AfterUpdate
    /\ \E i, j \in DOMAIN resolved :
          /\ i # j
          /\ resolved[i].info.target_entity = resolved[j].info.target_entity
          /\ resolved[i].branch = "contributed" /\ resolved[j].branch = "contributed"
          /\ resolved[i].info.source_entity \notin alive
          /\ resolved[j].info.source_entity \notin alive

\* C7: in Scenario A the target's health is below 1.0 at the end of each of
\* the first 9 ticks and is 1.0 at the end of the 10th, by when 100 mass and
\* 100 energy have been consumed in total
C7_ScenarioA ==
    (world = "A" /\ AfterTick) =>
        /\ tick < 10 => FLt(damage[3].health, F1)
        /\ tick = 10 => /\ FEq(damage[3].health, F1)
                        /\ FEq(spent.mass, F(100))
                        /\ FEq(spent.energy, F(100))

\* C8: in Scenario B the first tick has a total mass request of 150 and a
\* mass stall of 100/150, each builder consumes its mass request times that
\* ratio, and the tick ends with a mass stock of 0
C8_ScenarioB ==
    (world \in {"B75", "B100"} /\ tick = 1) =>
        /\ AfterRequests =>
              /\ FEq(economy.mass_requested, F(150))
              /\ FEq(economy.mass_stall, FDiv(F(100), F(150)))
        /\ AfterSettlement =>
              \A e \in {1, 2} :
                  FEq(consumer[e].mass_consumed,
                      FMul(consumer[e].mass_request, economy.mass_stall))
        /\ AfterTick => FEq(economy.mass, F0)

\* the gate of the world G15 (counter at 15 before the first tick) spawns
\* its first unit in tick n and not before, and the spawn stage of tick n
\* leaves the gate with a Constructing edge to that unit
FirstSpawnAtTick(n) ==
    world = "G15" =>
        /\ spawnLog # <<>> => spawnLog[1].gate = 1 /\ spawnLog[1].tick = n
        /\ (tick > n \/ (tick = n /\ pc # "quantum_gate_spawn_construct")) =>
              spawnLog # <<>>
        /\ (tick = n /\ pc = "update") =>
              /\ 1 \in DOMAIN constructing
              /\ constructing[1].target = spawnLog[1].unit
              /\ spawnLog[1].unit \in alive

\* C9 as stated: a gate that counts down from 15 spawns its first unit at
\* tick 15 and has a Constructing edge to it
C9_FirstSpawnAtTick15 == FirstSpawnAtTick(DefaultRolloffTime)

\* C9 amended: a gate that counts down from 15 spawns its first unit at
\* tick 16, the tick after the 15 ticks that bring the counter to 0, and
\* has a Constructing edge to it
C9_FirstSpawnAtTick16 == FirstSpawnAtTick(DefaultRolloffTime + 1)

\* the gate that counted down from 15 has spawned and is constructing
C9_Witness ==
    /\ world = "G15"
    /\ pc = "update"
    /\ Len(spawnLog) = 1
    /\ gate[1].rolloff_current = -1
    /\ constructing[1].target = spawnLog[1].unit

\* the entries before the i-th of log that resolved an edge to the target t
\* with a contribution
EarlierContributions(log, i, t) ==
    {j \in 1..(i - 1) : log[j].info.target_entity = t /\ log[j].branch = "contributed"}

\* C10: each sacrifice resolved with a contribution raises the health of
\* its target by min(mass_total * health * mass_efficiency / target
\* mass_total, the same for energy), clamped to 1.0, with the values the
\* source had when the resolver was entered, and the source is gone when
\* the stage ends
C10_SacrificeContribution ==
    [][pc = "update" =>
          \A i \in DOMAIN resolved' :
              resolved'[i].branch = "contributed" =>
                  LET s == resolved'[i].info.source_entity
                      t == resolved'[i].info.target_entity
                      earlier == EarlierContributions(resolved', i, t)
                      later == {j \in DOMAIN resolved' :
                                   /\ j > i
                                   /\ resolved'[j].info.target_entity = t
                                   /\ resolved'[j].branch = "contributed"}
                      portion ==
                          FMin(FDiv(FMul(FMul(damage[s].mass_total, damage[s].health),
                                         sacCapable[s].mass_efficiency),
                                    damage[t].mass_total),
                               FDiv(FMul(FMul(damage[s].energy_total, damage[s].health),
                                         sacCapable[s].energy_efficiency),
                                    damage[t].energy_total))
                  IN  /\ resolved'[i].before =
                            IF earlier = {} THEN damage[t].health
                            ELSE resolved'[CHOOSE j \in earlier :
                                              \A k \in earlier : k <= j].after
                      /\ resolved'[i].after = FMin(FAdd(resolved'[i].before, portion), F1)
                      /\ s \notin alive'
                      /\ (later = {} /\ t \in DOMAIN damage') =>
                            damage'[t].health = resolved'[i].after]_vars

\* Scenario D: the source of 100 mass at health 0.5 and efficiency 0.9 has
\* contributed 45 mass, a tenth of the target of 450 mass, and is gone
C10_Witness ==
    /\ world = "D"
    /\ AfterUpdate
    /\ Len(resolved) = 1
    /\ resolved[1].branch = "contributed"
    /\ resolved[1].info.mass_available = F(45)
    /\ resolved[1].before = F0
    /\ damage[2].health = FDiv(F1, F(10))
    /\ 1 \notin alive

\* main.rs: the stages of the schedule in the order RASSimulation::new adds
\* them, by the system a stage starts with ("economy request" runs
\* economy_resource_producers, then economy_process_resource_requests)
Stages ==
    <<"count_tick", "quantum_gate_spawn_construct", "update",
      "economy_resource_producers", "economy_process_resource_requests",
      "do_construct", "economy_process_resource_consumption">>

\* the position of the system p in the schedule
StageIndex(p) == CHOOSE i \in DOMAIN Stages : Stages[i] = p

\* C11: a run takes the stages in the fixed order tick count, spawn
\* controller, update, production accounting, request aggregation,
\* settlement, consumption accounting, each once, and the tick counter goes
\* up by exactly 1, in the tick count stage; the stall ratios settlement
\* finds are those of the same tick, computed from the stock the tick
\* started with plus the production of the tick
C11_StageOrder ==
    [][/\ pc' # pc => pc' = Stages[(StageIndex(pc) % Len(Stages)) + 1]
       /\ tick' = IF pc = "count_tick" /\ pc' # pc THEN tick + 1 ELSE tick
       /\ pc = "do_construct" =>
             /\ economy' = economy
             /\ \E po \in Orders(ProducerQuery) :
                   /\ economy.mass_produced = SumField(producer, "mass_yield", po, 1, F0)
                   /\ economy.energy_produced = SumField(producer, "energy_yield", po, 1, F0)
             /\ economy.mass_stall =
                   Stall(FAdd(tickStart.mass, economy.mass_produced), economy.mass_requested)
             /\ economy.energy_stall =
                   Stall(FAdd(tickStart.energy, economy.energy_produced),
                         economy.energy_requested)]_vars

\* settlement is about to run in a second or later tick with a mass stall
\* that the stock at the start of the tick alone would not give
C11_Witness ==
    /\ pc = "do_construct"
    /\ tick > 1
    /\ FLt(F0, economy.mass_produced)
    /\ FLt(F0, economy.mass_requested)
    /\ economy.mass_stall # Stall(tickStart.mass, economy.mass_requested)

\* C12: when economy_resource_producers has run, and request aggregation
\* is about to compute the stall ratios, the stock of mass and of energy is
\* at most the capacity
C12_ProductionClamped ==
    pc = "economy_process_resource_requests" =>
        /\ FLe(economy.mass, economy.mass_capacity)
        /\ FLe(economy.energy, economy.energy_capacity)

\* x is a number: neither an infinity nor NaN
IsNumber(x) == ~IsNaN(x) /\ ~IsInf(x)

\* C13: no buildable entity with a build_time, mass_total or energy_total
\* of zero or less gets into a tick, so the build_amount of every edge and
\* the health of every entity is a number, never an infinity or NaN
C13_ConfigurationRejected ==
    /\ \A e \in DOMAIN constructing : IsNumber(constructing[e].build_amount)
    /\ \A e \in DOMAIN damage : IsNumber(damage[e].health)

\* the gate g spawns in the step
SpawnsNow(g) ==
    \E i \in DOMAIN spawnLog' : i \notin DOMAIN spawnLog /\ spawnLog'[i].gate = g

\* the units the gate g has spawned that are in the store and below health 1.0
InFlight(g) ==
    {i \in DOMAIN spawnLog :
        /\ spawnLog[i].gate = g
        /\ spawnLog[i].unit \in DOMAIN damage
        /\ FLt(damage[spawnLog[i].unit].health, F1)}

\* C14: a gate has at most one spawned unit under construction; it spawns
\* only when it holds no Constructing edge and its counter is 0, the spawn
\* leaves it with an edge and the counter at -1; its counter does not move
\* while it holds an edge, and otherwise moves only from -1 to rolloff_time,
\* down by 1 while above 0, and from 0 to -1 with a spawn; so between two
\* spawns the edge is cleared and the counter goes from -1 to rolloff_time
\* and down to 0
C14_OneInFlightSpawn ==
    [][\A g \in DOMAIN gate \cap DOMAIN gate' :
          /\ Cardinality(InFlight(g)) <= 1
          /\ SpawnsNow(g) =>
                /\ g \notin DOMAIN constructing
                /\ InFlight(g) = {}
                /\ gate[g].rolloff_current = 0
                /\ gate'[g].rolloff_current = -1
                /\ g \in DOMAIN constructing'
          /\ g \in DOMAIN constructing => gate'[g] = gate[g]
          /\ gate'[g] # gate[g] =>
                /\ gate'[g].rolloff_time = gate[g].rolloff_time
                /\ \/ /\ gate[g].rolloff_current > 0
                      /\ gate'[g].rolloff_current = gate[g].rolloff_current - 1
                   \/ /\ gate[g].rolloff_current = 0
                      /\ gate'[g].rolloff_current = -1
                      /\ SpawnsNow(g)
                   \/ /\ gate[g].rolloff_current = -1
                      /\ gate'[g].rolloff_current = gate[g].rolloff_time]_vars

\* a gate has spawned a second unit, after the first was completed and the
\* counter went through -1 and rolloff_time, and holds the edge to it
C14_Witness ==
    /\ pc = "update"
    /\ Len(spawnLog) = 2
    /\ spawnLog[1].gate = spawnLog[2].gate
    /\ FEq(damage[spawnLog[1].unit].health, F1)
    /\ gate[spawnLog[2].gate].rolloff_current = -1
    /\ constructing[spawnLog[2].gate].target = spawnLog[2].unit

\* every entity with a Damage has a build_time, mass_total and energy_total
\* above 0
WellFormedCosts ==
    \A e \in DOMAIN damage :
        /\ FLt(F0, damage[e].build_time)
        /\ FLt(F0, damage[e].mass_total)
        /\ FLt(F0, damage[e].energy_total)

\* C15: with well-formed costs the stock of mass and of energy is within
\* [-EPSILON, capacity] at the end of every tick, and no overconsumption
\* warning has been emitted
C15_StockWithinBounds ==
    (AfterTick /\ WellFormedCosts) =>
        /\ FLe(FNeg(EPSILON), economy.mass)
        /\ FLe(economy.mass, economy.mass_capacity)
        /\ FLe(FNeg(EPSILON), economy.energy)
        /\ FLe(economy.energy, economy.energy_capacity)
        /\ warnings = <<>>

\* C16 as stated: an entity with the tag WillExecuteOnConstruct gains
\* Executing and loses the tag in the tick in which its health becomes 1.0,
\* so no tick ends with a tagged, not executing entity at health 1.0
C16_FiresOnCompletionTick ==
    AfterTick =>
        \A e \in (willExecute \cap DOMAIN damage) \ executing :
            ~FEq(damage[e].health, F1)

\* the entity e was brought to health 1.0 by a sacrifice the update stage
\* of the step resolved
CompletedBySacrificeNow(e) ==
    \E i \in DOMAIN resolved' :
        /\ resolved'[i].info.target_entity = e
        /\ resolved'[i].branch = "contributed"
        /\ FLt(resolved'[i].before, F1)
        /\ FEq(resolved'[i].after, F1)

\* C16 amended: an entity gains Executing only in the update stage, with
\* the tag WillExecuteOnConstruct, which it loses, and health 1.0; the tag
\* is lost in no other way; an executing entity stays executing and
\* untagged; and an update stage leaves a tagged, not executing entity at
\* health 1.0 only if a sacrifice of that very stage completed it, so the
\* transition fires in the first update stage whose trigger runs after the
\* health became 1.0: the next tick's for a completion by settlement
C16_FiresInNextUpdate ==
    [][/\ \A e \in executing' \ executing :
             /\ pc = "update"
             /\ e \in willExecute /\ e \notin willExecute'
             /\ FEq(damage'[e].health, F1)
       /\ \A e \in willExecute \ willExecute' : e \in executing' \/ e \notin alive'
       /\ \A e \in executing \cap alive' : e \in executing' /\ e \notin willExecute'
       /\ pc = "update" =>
             \A e \in (willExecute' \cap DOMAIN damage') \ executing' :
                 FEq(damage'[e].health, F1) => CompletedBySacrificeNow(e)]_vars

\* the update stage of the tick after a settlement completed a tagged
\* target has made the target executing and removed the tag
C16_Witness ==
    /\ AfterUpdate
    /\ \E i \in DOMAIN settled :
          /\ settled[i].branch = "completed"
          /\ settled[i].target \in executing
          /\ settled[i].target \notin willExecute
          /\ settled[i].target \in DOMAIN producer

\* C17: whatever the order in which the update stage evaluates its three
\* systems, the stage ends with the same entities made executing, the same
\* requests and the same healths
C17_UpdateOrderIndependent ==
    pc = "update" =>
        \A ord \in Orders(SacrificeQuery) :
            \A s1 \in Orders(UpdateSystems) : \E w1 \in {RunUpdateSystems(s1, ord)} :
                \A s2 \in Orders(UpdateSystems) : \E w2 \in {RunUpdateSystems(s2, ord)} :
                    /\ w1.cmd.insertExecuting = w2.cmd.insertExecuting
                    /\ w1.consumer = w2.consumer
                    /\ w1.damage = w2.damage

\* C18: the commands of a stage take effect when the stage ends, together.
\* A unit a gate spawns is in the store, with all its components and the
\* gate's Constructing edge to it, when the spawn stage ends, and not
\* before; in the update stage every builder whose target is in the store
\* when the stage starts computes its request and keeps its edge, also when
\* the sacrifice resolver of the same stage despawns the target, and a
\* despawned source is taken out of the store with all its components; a
\* builder whose target is not in the store when the stage starts loses its
\* edge when the stage ends
C18_DeferredCommands ==
    [][/\ pc = "quantum_gate_spawn_construct" =>
             \A i \in DOMAIN spawnLog' :
                 i \notin DOMAIN spawnLog =>
                     \E u \in {spawnLog'[i].unit}, g \in {spawnLog'[i].gate} :
                         /\ u \notin alive /\ u \notin DOMAIN damage
                         /\ g \notin DOMAIN constructing
                         /\ u \in alive'
                         /\ u \in willExecute' /\ u \in commander'
                         /\ damage'[u] = RAS_SACU_DAMAGE
                         /\ engineering'[u] = RAS_SACU_ENGINEERING
                         /\ producer'[u] = RAS_SACU_RESOURCE_PRODUCTION
                         /\ consumer'[u] = ResourceConsumerDefault
                         /\ sacCapable'[u] = RAS_SACU_SACRIFICE
                         /\ constructing'[g] = NewConstructing(u)
       /\ pc = "update" =>
             /\ \A b \in RequestQuery :
                   \E t \in {constructing[b].target} :
                       IF t \in DOMAIN damage
                       THEN \E req \in {RequestOf(constructing[b], engineering[b].build_rate,
                                                  damage[t])} :
                               b \in alive' =>
                                   /\ b \in DOMAIN constructing'
                                   /\ constructing'[b] = req
                                   /\ consumer'[b].mass_request =
                                         FAdd(consumer[b].mass_request, req.mass_requested)
                                   /\ consumer'[b].energy_request =
                                         FAdd(consumer[b].energy_request, req.energy_requested)
                       ELSE b \notin DOMAIN constructing'
             /\ \A e \in alive \ alive' :
                   /\ e \in SacrificeQuery
                   /\ e \notin DOMAIN damage' /\ e \notin DOMAIN sacrificing'
                   /\ e \notin DOMAIN sacCapable' /\ e \notin DOMAIN producer'
                   /\ e \notin DOMAIN consumer' /\ e \notin DOMAIN engineering'
                   /\ e \notin DOMAIN constructing' /\ e \notin executing']_vars

\* the update stage has despawned a source that a builder was constructing:
\* the builder has requested for it in that stage and still holds the edge
C18_Witness ==
    /\ AfterUpdate
    /\ \E b \in DOMAIN constructing :
          /\ constructing[b].target \notin alive
          /\ FLt(F0, constructing[b].mass_requested)
          /\ FLt(F0, consumer[b].mass_request)
          /\ \E i \in DOMAIN resolved :
                /\ resolved[i].info.source_entity = constructing[b].target
                /\ resolved[i].branch = "contributed"

\* the tick of the spawn that follows the removal c of a gate's edge
SpawnDue(c) == c.tick + gate[c.gate].rolloff_time + 2

\* C19: a gate that stays executing and unpaused spawns its next unit
\* rolloff_time + 2 ticks after the tick in which its Constructing edge was
\* removed (one tick to go from -1 to rolloff_time, rolloff_time ticks to
\* count down to 0, and the tick of the spawn), and not before, in every
\* cycle, however long the construction took
C19_FixedCadence ==
    \A c \in cleared :
        (c.gate \in DOMAIN gate /\ c.gate \in executing /\ c.gate \notin paused) =>
            /\ \A i \in DOMAIN spawnLog :
                  (spawnLog[i].gate = c.gate /\ spawnLog[i].tick > c.tick) =>
                      spawnLog[i].tick >= SpawnDue(c)
            /\ (tick > SpawnDue(c) \/
                (tick = SpawnDue(c) /\ pc # "quantum_gate_spawn_construct")) =>
                  \E i \in DOMAIN spawnLog :
                      spawnLog[i].gate = c.gate /\ spawnLog[i].tick = SpawnDue(c)

\* a gate has spawned three units: the first two constructions took
\* different numbers of ticks and each was followed by a spawn the same
\* number of ticks after the edge was removed
C19_Witness ==
    /\ Len(spawnLog) = 3
    /\ \E c1 \in cleared, c2 \in cleared :
          /\ spawnLog[1].gate = c1.gate /\ spawnLog[2].gate = c1.gate
          /\ spawnLog[3].gate = c1.gate /\ c2.gate = c1.gate
          /\ spawnLog[1].tick < c1.tick /\ c1.tick < spawnLog[2].tick
          /\ spawnLog[2].tick < c2.tick /\ c2.tick < spawnLog[3].tick
          /\ c1.tick - spawnLog[1].tick # c2.tick - spawnLog[2].tick
          /\ spawnLog[2].tick - c1.tick = spawnLog[3].tick - c2.tick
          /\ spawnLog[2].tick = SpawnDue(c1)

\* C20: at the end of a tick no executing, not paused builder holds a
\* Constructing edge to a target at health 1.0
C20_NoEdgeToCompletedTarget ==
    AfterTick =>
        \A b \in ConstructQuery :
            constructing[b].target \in DOMAIN damage =>
                ~FEq(damage[constructing[b].target].health, F1)

\* C21: a builder whose target is not in the store when the request phase
\* runs loses its Constructing edge when the update stage ends, with its
\* request and consumed counters and its other components as they were, and
\* stays in the store; a settlement that does not find the target of an
\* edge leaves the builder's counters alone; and an update stage leaves an
\* edge without target only if the target was despawned in that very stage,
\* so the edge is gone one tick after the target
C21_DanglingEdgeDropped ==
    [][/\ pc = "update" =>
             /\ \A b \in RequestQuery :
                   constructing[b].target \notin DOMAIN damage =>
                       /\ b \in alive' /\ b \in executing'
                       /\ b \notin DOMAIN constructing'
                       /\ consumer'[b] = consumer[b]
                       /\ engineering'[b] = engineering[b]
                       /\ (b \in DOMAIN producer => producer'[b] = producer[b])
                       /\ (b \in DOMAIN damage => damage'[b] = damage[b])
             /\ \A b \in DOMAIN constructing' :
                   (b \in RequestQuery /\ constructing'[b].target \notin DOMAIN damage') =>
                       constructing'[b].target \in DOMAIN damage \ DOMAIN damage'
       /\ pc = "do_construct" =>
             \A b \in ConstructQuery :
                 constructing[b].target \notin DOMAIN damage =>
                     /\ b \in alive'
                     /\ consumer'[b] = consumer[b]]_vars

\* the update stage after the one that despawned a builder's target has
\* removed the builder's edge and left the builder executing, with no
\* request
C21_Witness ==
    /\ AfterUpdate
    /\ \E b \in (DOMAIN engineering \cap DOMAIN consumer) \cap executing :
          /\ b \notin DOMAIN constructing
          /\ consumer[b] = ResourceConsumerDefault
          /\ world = "D" /\ tick = 2 /\ b = 3 /\ 1 \notin alive

\* the sources the resolver of this update stage finds with a target that
\* is complete or not in the store
IdleSources ==
    {s \in SacrificeQuery :
        \/ sacrificing[s].target \notin DOMAIN damage
        \/ FGe(damage[sacrificing[s].target].health, F1)}

\* C22: a source whose target is complete or not in the store when the
\* resolver runs loses its Sacrificing edge and nothing else: it stays in
\* the store with its components, the target's health is as it was, and a
\* stage in which every edge is of this kind changes no health and removes
\* no entity
C22_SacrificeNoOp ==
    [][pc = "update" =>
          /\ \A s \in IdleSources :
                /\ s \in alive' /\ s \in executing'
                /\ s \notin DOMAIN sacrificing'
                /\ s \in DOMAIN damage'
                /\ damage'[s].mass_total = damage[s].mass_total
                /\ sacCapable'[s] = sacCapable[s]
                /\ sacrificing[s].target \in DOMAIN damage \cap DOMAIN damage' =>
                      damage'[sacrificing[s].target].health
                          = damage[sacrificing[s].target].health
          /\ IdleSources = SacrificeQuery =>
                /\ alive' = alive
                /\ damage' = damage]_vars

\* the resolver has found the target of a source gone: the source is in
\* the store, executing, without its Sacrificing edge
C22_Witness ==
    /\ AfterUpdate
    /\ \E i \in DOMAIN resolved :
          /\ resolved[i].branch = "gone"
          /\ resolved[i].info.target_entity \notin alive
          /\ resolved[i].info.source_entity \in alive \cap executing
          /\ resolved[i].info.source_entity \notin DOMAIN sacrificing

\* C23: an entity leaves the store only in the update stage, and only as a
\* source of the sacrifice resolver whose target was there and incomplete
\* when the stage began; no other stage removes an entity, so the builders
\* of the request phase and of settlement, which are not such sources, are
\* still in the store when their stage ends, whatever became of the target
C23_OnlySacrificeDespawns ==
    [][/\ \A e \in alive \ alive' :
             /\ pc = "update"
             /\ e \in SacrificeQuery
             /\ sacrificing[e].target \in DOMAIN damage
             /\ ~FGe(damage[sacrificing[e].target].health, F1)
             /\ \E i \in DOMAIN resolved' :
                   /\ resolved'[i].info.source_entity = e
                   /\ resolved'[i].branch = "contributed"
       /\ pc = "update" => (RequestQuery \ SacrificeQuery) \subseteq alive'
       /\ pc = "do_construct" => ConstructQuery \subseteq alive'
       /\ pc \notin {"update"} => alive \subseteq alive']_vars

\* a builder whose target the settlement just run has completed or found
\* complete is in the store, and the last update stage despawned a
\* sacrificed source whose target is in the store
C23_Witness ==
    /\ AfterSettlement
    /\ \E i \in DOMAIN settled :
          /\ settled[i].branch \in {"done", "completed"}
          /\ settled[i].builder \in alive
          /\ settled[i].builder \notin DOMAIN constructing
    /\ \E i \in DOMAIN resolved :
          /\ resolved[i].branch = "contributed"
          /\ resolved[i].info.source_entity \notin alive
          /\ resolved[i].info.target_entity \in alive

\* the executing entities tagged ConstructionPaused
PausedExecuting == paused \cap executing

\* the targets every edge to which is held by a paused entity
PausedTargets ==
    {t \in DOMAIN damage :
        /\ \E b \in PausedExecuting \cap DOMAIN constructing : constructing[b].target = t
        /\ \A b \in DOMAIN constructing : constructing[b].target = t => b \in paused}

\* C24: the request and consumed counters of a paused executing entity are
\* 0 in every state and its Constructing edge is never written; request
\* aggregation yields the totals and stall ratios of the consumers that are
\* not paused; settlement gives nothing to a target whose builders are all
\* paused; production adds the yields of a paused producer to its lifetime
\* totals and counts them in the stock
C24_PausedExcluded ==
    [][/\ \A p \in PausedExecuting \cap DOMAIN consumer :
             /\ consumer[p] = ResourceConsumerDefault
             /\ p \in DOMAIN consumer' /\ consumer'[p] = ResourceConsumerDefault
       /\ \A p \in PausedExecuting \cap DOMAIN constructing :
             p \in DOMAIN constructing' /\ constructing'[p] = constructing[p]
       /\ pc = "economy_process_resource_requests" =>
             \E ord \in Orders(ConsumerQuery \ paused) :
                 economy' = Requested(economy,
                                      SumField(consumer, "mass_request", ord, 1, F0),
                                      SumField(consumer, "energy_request", ord, 1, F0))
       /\ pc = "do_construct" =>
             /\ \A t \in PausedTargets : damage'[t] = damage[t]
             /\ \A i \in DOMAIN settled' : settled'[i].builder \notin paused
       /\ pc = "economy_resource_producers" =>
             \A p \in PausedExecuting \cap DOMAIN producer :
                 /\ producer'[p].total_mass
                        = FAdd(producer[p].total_mass, producer[p].mass_yield)
                 /\ producer'[p].total_energy
                        = FAdd(producer[p].total_energy, producer[p].energy_yield)
                 /\ FGe(economy'.mass_produced, producer[p].mass_yield)
                 /\ FGe(economy'.energy_produced, producer[p].energy_yield)
                 /\ FGe(economy'.mass, FAdd(economy.mass, producer[p].mass_yield))]_vars

\* after a settlement in which a builder that is not paused has added to
\* its target, a paused builder that produces still holds its edge to a
\* target of health 0, with lifetime totals of one yield per tick
C24_Witness ==
    /\ AfterSettlement
    /\ tick = 3
    /\ \E i \in DOMAIN settled : settled[i].branch = "progress"
    /\ \E p \in PausedExecuting \cap (DOMAIN constructing \cap DOMAIN producer) :
          /\ constructing[p].target \in PausedTargets
          /\ damage[constructing[p].target].health = F0
          /\ consumer[p] = ResourceConsumerDefault
          /\ producer[p].total_mass = FMul(F(3), producer[p].mass_yield)
          /\ FLt(F0, producer[p].mass_yield)

\* the states in which every settlement so far was for the one entity with
\* Damage of the store, built by construction alone
OneTargetByConstruction ==
    /\ Cardinality(DOMAIN damage) = 1
    /\ DOMAIN sacCapable = {}
    /\ DOMAIN gate = {}

\* C25: every settlement that adds the health d to a target charges the
\* builder d * mass_total * mass_consumption_multiplier mass and
\* d * energy_total * energy_consumption_multiplier energy; the amounts
\* consumed for a target built by construction alone never exceed
\* mass_total and energy_total times the multiplier, and equal them once
\* the target's health is 1.0
C25_FixedRatioNoOvershoot ==
    [][/\ pc = "do_construct" =>
             \A i \in DOMAIN settled' :
                 settled'[i].branch \in {"progress", "completed"} =>
                     \E c \in {constructing[settled'[i].builder]},
                        td \in {damage[settled'[i].target]},
                        d \in {FSub(settled'[i].after, settled'[i].before)} :
                         /\ settled'[i].mass
                                = FMul(FMul(d, td.mass_total), c.mass_consumption_multiplier)
                         /\ settled'[i].energy
                                = FMul(FMul(d, td.energy_total),
                                       c.energy_consumption_multiplier)
       /\ (OneTargetByConstruction /\ AfterTick) =>
             \A t \in DOMAIN damage :
                 /\ FLe(spent.mass, damage[t].mass_total)
                 /\ FLe(spent.energy, damage[t].energy_total)
                 /\ FEq(damage[t].health, F1) =>
                       /\ FEq(spent.mass, damage[t].mass_total)
                       /\ FEq(spent.energy, damage[t].energy_total)]_vars

====
